---------------------------- MODULE Spec2Model ----------------------------
(* A model of the run orchestrator of denoload, src/src/runner.ts:          *)
(* run(), loadOptions() and the closure returned by progressPrinter().      *)
(*                                                                          *)
(* JavaScript runs one task to completion between two awaits, so there is   *)
(* one action per resumption of run() and of the progress closure, one per  *)
(* timer firing, and one per event of the environment (an executor          *)
(* settling, a worker completing an iteration, a worker answering a         *)
(* broadcast call).                                                         *)
EXTENDS Integers, Sequences, FiniteSets, TLC

----------------------------------------------------------------------------
(* Bounds of the model.                                                     *)

MaxScenarios == 2
MaxWorkers == 2
MaxIter == 1
MaxTicks == 2

(* The iteration counters of a run, one per worker and scenario.            *)
MaxCounters == 2

(* The numbers assertLessOrEqual is applied to are 0 .. MaxValue.           *)
MaxValue == 2

(* A percentage is a multiple of 1 / PercentScale, from PercentMargin below *)
(* 0 to PercentMargin above 100.                                            *)
PercentScale == 2

PercentMargin == 2

(* The scenario names a test module may declare.  "1" and "2" are integer   *)
(* indices for JavaScript's property order, "a" is an ordinary name.        *)
ScenarioNames == {"1", "2", "a"}

(* What `await import(moduleURL)` may give run().                           *)
ModuleValues ==
    {"importThrows", "nothing", "noOptionsExport", "optionsNull",
     "optionsLacksScenarios", "ok"}

ExecutorKinds == {"constant-vus", "no-such-executor"}

----------------------------------------------------------------------------
(* Pure helpers.                                                            *)

Range(s) == {s[i] : i \in DOMAIN s}

Distinct(s) == \A i, j \in DOMAIN s : i # j => s[i] # s[j]

RECURSIVE SeqsUpTo(_, _)
SeqsUpTo(S, n) ==
    IF n = 0 THEN {<<>>}
    ELSE LET shorter == SeqsUpTo(S, n - 1)
         IN  shorter \cup {Append(s, x) : s \in shorter, x \in S}

(* The scenario declarations of a module: distinct names, in the order the  *)
(* object literal lists them.                                               *)
Declarations == {s \in SeqsUpTo(ScenarioNames, MaxScenarios) : Distinct(s)}

(* The integer a property name denotes when it is a canonical array index,  *)
(* -1 otherwise.                                                            *)
ArrayIndex(name) ==
    CASE name = "1" -> 1
      [] name = "2" -> 2
      [] OTHER -> -1

IsArrayIndex(name) == ArrayIndex(name) >= 0

IndexBefore(a, b) == ArrayIndex(a) < ArrayIndex(b)

(* Object.entries(moduleOptions.scenarios): the own enumerable string keys  *)
(* in property order, which is the integer indices in ascending order and   *)
(* then the other names in the order they were created.                     *)
ObjectEntries(decl) ==
    SortSeq(SelectSeq(decl, IsArrayIndex), IndexBefore)
        \o SelectSeq(decl, LAMBDA n : ~IsArrayIndex(n))

(* (await import(url))?.options                                             *)
loadOptions(m) ==
    CASE m = "nothing" -> "undefined"
      [] m = "noOptionsExport" -> "undefined"
      [] m = "optionsNull" -> "null"
      [] m = "optionsLacksScenarios" -> "objectWithoutScenarios"
      [] OTHER -> "object"


----------------------------------------------------------------------------
(* State.                                                                   *)

VARIABLES
    moduleValue,     \* what importing the test module gives
    scenarios,       \* options.scenarios: the names in declaration order
    kinds,           \* options.scenarios[name].executor
    nWorkers,        \* the workers of the pool
    pc,              \* where run() is suspended, or how it ended
    log,             \* what run() has done and written, in order
    poolCreated,     \* new WorkerPool() was evaluated
    constructed,     \* the executors constructed, in order of construction
    execs,           \* the array `execs` of run()
    execState,       \* per scenario: its execute() promise
    intervalActive,  \* the timer of setInterval is set
    ticks,           \* how often the timer has fired
    cnt,             \* per worker and scenario: iterations completed
    calls,           \* the broadcast calls that have not resolved
    broadcasts,      \* how many broadcast calls were started
    metricsPromises, \* run()'s `metricsPromises`, once the call resolved
    vuMetrics,       \* run()'s `vuMetrics`, the registries given to the merge
    warned,          \* the broadcasts for which a rejection was logged
    display,         \* the last progress render
    renders,         \* how many progress renders happened
    terminal,        \* the lines of process.stdout above the cursor
    call,            \* the exported function last applied, with its arguments
    result           \* what that application returned, threw or printed

vars ==
    <<moduleValue, scenarios, kinds, nWorkers, pc, log, poolCreated,
      constructed, execs, execState, intervalActive, ticks, cnt, calls,
      broadcasts, metricsPromises, vuMetrics, warned, display, renders,
      terminal, call, result>>

(* The variables of the applications of assertLessOrEqual and               *)
(* printScenarioProgress on their own, which run() leaves alone.            *)
pure == <<call, result>>

definition == <<moduleValue, scenarios, kinds, nWorkers>>

Names == Range(scenarios)

Workers == 1 .. nWorkers

(* JavaScript's `undefined` where a number is expected.                     *)
Undefined == -1

NoReport == [s \in Names |-> Undefined]

----------------------------------------------------------------------------
(* The worker pool's broadcast call, workerPool                              *)
(* .forEachWorkerRemoteProcedureCall(): one outcome per worker, fulfilled   *)
(* or rejected, and the call resolves once every worker has one.  The pool  *)
(* promises no order between the answers to two calls.                      *)

Pending == [status |-> "pending", value |-> <<>>]

Rejected == [status |-> "rejected", value |-> <<>>]

Fulfilled(v) == [status |-> "fulfilled", value |-> v]

NewCall(name, origin) ==
    [name |-> name, origin |-> origin, answers |-> [w \in Workers |-> Pending]]

Settled(c) == \A w \in Workers : c.answers[w].status # "pending"

(* The registry worker w answers a `metrics` call with.                     *)
Registry(w) == <<w>>

(* What worker w may answer an `iterationsDone` call with: its count for    *)
(* every scenario it has run, and for the others either 0 or no entry.      *)
Reports(w) ==
    {r \in [Names -> {Undefined} \cup (0 .. MaxIter)] :
        \A s \in Names :
            IF cnt[w][s] > 0 THEN r[s] = cnt[w][s] ELSE r[s] \in {Undefined, 0}}

Answers(c, w) ==
    IF c.name = "metrics" THEN {Fulfilled(Registry(w)), Rejected}
    ELSE IF "poolReleased" \in Range(log) THEN {Rejected}
    ELSE {Fulfilled(r) : r \in Reports(w)} \cup {Rejected}

(* The calls cs and a new one, numbered by the count of calls started.      *)
WithCall(cs, name, origin) == (broadcasts + 1 :> NewCall(name, origin)) @@ cs

WithoutCall(cs, id) == [i \in DOMAIN cs \ {id} |-> cs[i]]

SomeRejected(promises) ==
    \E w \in DOMAIN promises : promises[w].status = "rejected"

FulfilledWorkers(promises) ==
    {w \in DOMAIN promises : promises[w].status = "fulfilled"}

(* A Promise.all that waits for every promise and never rejects.            *)
PromiseAllSettledOnly(states) ==
    IF \A s \in DOMAIN states : states[s] # "running" THEN "fulfilled"
    ELSE "pending"

(* Promise.all over the execute() promises.                                 *)
PromiseAll(states) ==
    IF \E s \in DOMAIN states : states[s] = "rejected" THEN "rejected"
    ELSE IF \A s \in DOMAIN states : states[s] = "fulfilled" THEN "fulfilled"
    ELSE "pending"

(* No continuation is ready to run.  A promise that settles resumes its     *)
(* awaiter in a microtask, before the event loop takes the next timer or    *)
(* message: while a broadcast call is settled, or run() awaits executors    *)
(* that have settled, nothing but that resumption happens.                  *)
Quiet ==
    /\ \A id \in DOMAIN calls : ~Settled(calls[id])
    /\ pc = "awaitExecs" => PromiseAll(execState) = "pending"

----------------------------------------------------------------------------
(* run(), from its call to the await of the executors.                      *)

----------------------------------------------------------------------------
(* process.stdout as a terminal: the lines above the cursor, oldest first,  *)
(* each tagged by what wrote it. Every write of the runner ends a line, so  *)
(* the cursor is always at the start of the line below the last one.        *)

(* What the terminal shows when run() is called.                            *)
PriorLines == <<"prior", "prior", "prior">>

(* console.log('\n'.repeat(execs.length + 1)): the k + 1 newlines of the    *)
(* string and the one console.log adds leave k + 2 empty lines.             *)
PlaceholderLines(k) == [i \in 1 .. k + 2 |-> "blank"]

(* moveCursor(process.stdout, 0, -n) followed by clearScreenDown: the       *)
(* cursor goes up n lines, as far as there are lines, and all from there on *)
(* is erased.                                                               *)
Erase(t, n) == SubSeq(t, 1, IF Len(t) > n THEN Len(t) - n ELSE 0)

(* The lines Erase(t, n) erases.                                            *)
Erased(t, n) == SubSeq(t, (IF Len(t) > n THEN Len(t) - n ELSE 0) + 1, Len(t))

(* The summary line and one line per executor.                              *)
ProgressLines(k) == [i \in 1 .. k + 1 |-> "progress"]

(* printMetrics of the merge of the given registries: the report, one line  *)
(* for what each registry holds.                                            *)
printMetrics(registries) == [i \in 1 .. Len(registries) |-> "report"]

(* No function has been applied.                                            *)
NoCall == [fn |-> "none", args |-> <<>>]

NoResult == [kind |-> "none", message |-> <<>>, line |-> <<>>]

Init ==
    /\ moduleValue \in ModuleValues
    /\ scenarios \in (IF moduleValue = "ok" THEN Declarations ELSE {<<>>})
    /\ kinds \in [Range(scenarios) -> ExecutorKinds]
    /\ nWorkers \in {n \in 0 .. MaxWorkers : n * Len(scenarios) <= MaxCounters}
    /\ pc = "load"
    /\ log = <<>>
    /\ poolCreated = FALSE
    /\ constructed = <<>>
    /\ execs = <<>>
    /\ execState = [s \in Range(scenarios) |-> "idle"]
    /\ intervalActive = FALSE
    /\ ticks = 0
    /\ cnt = [w \in 1 .. nWorkers |-> [s \in Range(scenarios) |-> 0]]
    /\ calls = <<>>
    /\ broadcasts = 0
    /\ metricsPromises = <<>>
    /\ vuMetrics = <<>>
    /\ warned = {}
    /\ display = [lines |-> <<>>,
                  iterationsDone |-> NoReport,
                  iterationsTotal |-> 0, fulfilled |-> {}, origin |-> "none"]
    /\ renders = 0
    /\ terminal = PriorLines
    /\ call = NoCall
    /\ result = NoResult

(* The executors `Object.entries(...).map(... new executors[kind](...))`    *)
(* constructs before it throws or ends: those before the first scenario     *)
(* whose kind is no key of `executors`.                                     *)
RECURSIVE ConstructedBefore(_, _)
ConstructedBefore(entries, k) ==
    IF entries = <<>> \/ k[Head(entries)] # "constant-vus" THEN <<>>
    ELSE <<Head(entries)>> \o ConstructedBefore(Tail(entries), k)

(* import() rejects: so does loadOptions() and so does run().               *)
ImportFails ==
    /\ pc = "load"
    /\ moduleValue = "importThrows"
    /\ pc' = "threw"
    /\ UNCHANGED <<definition, pure, terminal, log, poolCreated, constructed, execs,
                   execState, intervalActive, ticks, cnt, calls, broadcasts,
                   metricsPromises, vuMetrics, warned, display, renders>>

(* moduleOptions === null: the error is logged and run() returns.           *)
NoOptions ==
    /\ pc = "load"
    /\ moduleValue # "importThrows"
    /\ loadOptions(moduleValue) = "null"
    /\ log' = Append(log, "errorNoOptions")
    /\ pc' = "returned"
    /\ UNCHANGED <<definition, pure, terminal, poolCreated, constructed, execs, execState,
                   intervalActive, ticks, cnt, calls, broadcasts,
                   metricsPromises, vuMetrics, warned, display, renders>>

(* moduleOptions is undefined, or has no `scenarios`: the test against null *)
(* lets it pass, the pool is created, and reading `.scenarios` of undefined *)
(* or Object.entries(undefined) throws a TypeError.                         *)
ScenariosUnreadable ==
    /\ pc = "load"
    /\ moduleValue # "importThrows"
    /\ loadOptions(moduleValue) \in {"undefined", "objectWithoutScenarios"}
    /\ poolCreated' = TRUE
    /\ pc' = "threw"
    /\ UNCHANGED <<definition, pure, terminal, log, constructed, execs, execState,
                   intervalActive, ticks, cnt, calls, broadcasts,
                   metricsPromises, vuMetrics, warned, display, renders>>

(* A run() that calls execute() on each executor as soon as it is built.    *)
ConstructionFailsAfterStart ==
    /\ pc = "load"
    /\ moduleValue # "importThrows"
    /\ loadOptions(moduleValue) = "object"
    /\ \E s \in Names : kinds[s] # "constant-vus"
    /\ poolCreated' = TRUE
    /\ constructed' = ConstructedBefore(ObjectEntries(scenarios), kinds)
    /\ execState' = [s \in Names |->
                        IF s \in Range(constructed') THEN "running" ELSE "idle"]
    /\ pc' = "threw"
    /\ UNCHANGED <<definition, pure, terminal, log, execs, intervalActive, ticks,
                   cnt, calls, broadcasts, metricsPromises, vuMetrics, warned,
                   display, renders>>

(* A scenario names an executor kind that `executors` does not have:        *)
(* `new undefined(...)` throws once the scenarios before it are built.      *)
ConstructionFails ==
    /\ pc = "load"
    /\ moduleValue # "importThrows"
    /\ loadOptions(moduleValue) = "object"
    /\ \E s \in Names : kinds[s] # "constant-vus"
    /\ poolCreated' = TRUE
    /\ constructed' = ConstructedBefore(ObjectEntries(scenarios), kinds)
    /\ pc' = "threw"
    /\ UNCHANGED <<definition, pure, terminal, log, execs, execState, intervalActive, ticks,
                   cnt, calls, broadcasts, metricsPromises, vuMetrics, warned,
                   display, renders>>

(* What run() does once the executors are built, in order.                  *)
StartSteps == <<"placeholderLines", "samplerStarted", "executeAll">>

(* The executors are built, progressPrinter() writes its empty lines, the   *)
(* timer is set, every execute() is called, and run() awaits them all.      *)
(* A run() that awaits each execute() before it calls the next one.         *)
StartRunSequential ==
    /\ pc = "load"
    /\ moduleValue # "importThrows"
    /\ loadOptions(moduleValue) = "object"
    /\ \A s \in Names : kinds[s] = "constant-vus"
    /\ poolCreated' = TRUE
    /\ constructed' = ConstructedBefore(ObjectEntries(scenarios), kinds)
    /\ execs' = constructed'
    /\ log' = log \o StartSteps
    /\ intervalActive' = TRUE
    /\ execState' = [s \in Names |->
                        IF s = constructed'[1] THEN "running" ELSE "idle"]
    /\ pc' = "awaitExecs"
    /\ terminal' = terminal \o PlaceholderLines(Len(constructed'))
    /\ UNCHANGED <<definition, pure, ticks, cnt, calls, broadcasts, metricsPromises,
                   vuMetrics, warned, display, renders>>

StartRun ==
    /\ pc = "load"
    /\ moduleValue # "importThrows"
    /\ loadOptions(moduleValue) = "object"
    /\ \A s \in Names : kinds[s] = "constant-vus"
    /\ poolCreated' = TRUE
    /\ constructed' = ConstructedBefore(ObjectEntries(scenarios), kinds)
    /\ execs' = constructed'
    /\ log' = log \o StartSteps
    /\ intervalActive' = TRUE
    /\ execState' = [s \in Names |-> "running"]
    /\ pc' = "awaitExecs"
    /\ terminal' = terminal \o PlaceholderLines(Len(constructed'))
    /\ UNCHANGED <<definition, pure, ticks, cnt, calls, broadcasts, metricsPromises,
                   vuMetrics, warned, display, renders>>

----------------------------------------------------------------------------
(* The environment: executors and workers.                                  *)

(* The execute() promise of scenario s is fulfilled.                        *)
ExecutorSucceeds(s) ==
    /\ Quiet
    /\ execState[s] = "running"
    /\ execState' = [execState EXCEPT ![s] = "fulfilled"]
    /\ UNCHANGED <<definition, pure, terminal, pc, log, poolCreated, constructed, execs,
                   intervalActive, ticks, cnt, calls, broadcasts,
                   metricsPromises, vuMetrics, warned, display, renders>>

(* The execute() promise of scenario s is rejected.                         *)
ExecutorFails(s) ==
    /\ Quiet
    /\ execState[s] = "running"
    /\ execState' = [execState EXCEPT ![s] = "rejected"]
    /\ UNCHANGED <<definition, pure, terminal, pc, log, poolCreated, constructed, execs,
                   intervalActive, ticks, cnt, calls, broadcasts,
                   metricsPromises, vuMetrics, warned, display, renders>>

(* Worker w completes an iteration of scenario s.                           *)
Iterate(w, s) ==
    /\ Quiet
    /\ execState[s] = "running"
    /\ cnt[w][s] < MaxIter
    /\ cnt' = [cnt EXCEPT ![w][s] = @ + 1]
    /\ UNCHANGED <<definition, pure, terminal, pc, log, poolCreated, constructed, execs,
                   execState, intervalActive, ticks, calls, broadcasts,
                   metricsPromises, vuMetrics, warned, display, renders>>

(* Worker w answers, or fails to answer, the broadcast call id.             *)
Answer(id, w) ==
    /\ Quiet
    /\ id \in DOMAIN calls
    /\ calls[id].answers[w].status = "pending"
    /\ \E a \in Answers(calls[id], w) :
           calls' = [calls EXCEPT ![id].answers[w] = a]
    /\ UNCHANGED <<definition, pure, terminal, pc, log, poolCreated, constructed, execs,
                   execState, intervalActive, ticks, cnt, broadcasts,
                   metricsPromises, vuMetrics, warned, display, renders>>


----------------------------------------------------------------------------
(* The progress closure returned by progressPrinter().                      *)

RECURSIVE SumOver(_, _)
SumOver(f, S) ==
    IF S = {} THEN 0
    ELSE LET x == CHOOSE y \in S : TRUE
         IN  f[x] + SumOver(f, S \ {x})

(* The inner loop over one fulfilled worker's record: an entry the record   *)
(* has is added to iterationsDone[scenario], started at 0 when undefined.   *)
AddReport(acc, value) ==
    [s \in DOMAIN acc |->
        IF value[s] = Undefined THEN acc[s]
        ELSE (IF acc[s] = Undefined THEN 0 ELSE acc[s]) + value[s]]

(* `iterationsDone` after the loop over the first n promises: a rejected    *)
(* promise is logged and skipped.                                           *)
RECURSIVE CollectIterations(_, _)
CollectIterations(promises, n) ==
    IF n = 0 THEN NoReport
    ELSE LET acc == CollectIterations(promises, n - 1)
         IN  IF promises[n].status = "rejected" THEN acc
             ELSE AddReport(acc, promises[n].value)

(* `iterationsTotal` after the loop over the first n promises.              *)
RECURSIVE CollectTotal(_, _)
CollectTotal(promises, n) ==
    IF n = 0 THEN 0
    ELSE LET acc == CollectTotal(promises, n - 1)
             v == promises[n].value
         IN  IF promises[n].status = "rejected" THEN acc
             ELSE acc + SumOver(v, {s \in DOMAIN v : v[s] # Undefined})

(* The render: the summary line with iterationsTotal, then one line per     *)
(* executor, in the order of `execs`, from iterationsDone[scenarioName].    *)
Render(promises, origin) ==
    [lines |-> execs,
     iterationsDone |-> CollectIterations(promises, nWorkers),
     iterationsTotal |-> CollectTotal(promises, nWorkers),
     fulfilled |-> FulfilledWorkers(promises),
     origin |-> origin]

Warned(promises, origin) ==
    IF SomeRejected(promises) THEN warned \cup {origin} ELSE warned

(* The timer fires: the closure starts an `iterationsDone` broadcast.       *)
Tick ==
    /\ Quiet
    /\ intervalActive
    /\ ticks < MaxTicks
    /\ ticks' = ticks + 1
    /\ calls' = WithCall(calls, "iterationsDone", "tick")
    /\ broadcasts' = broadcasts + 1
    /\ UNCHANGED <<definition, pure, terminal, pc, log, poolCreated, constructed, execs,
                   execState, intervalActive, cnt, metricsPromises, vuMetrics,
                   warned, display, renders>>

(* The broadcast of a tick has resolved: the closure sums and renders.      *)
TickResume(id) ==
    /\ id \in DOMAIN calls
    /\ calls[id].origin = "tick"
    /\ Settled(calls[id])
    /\ calls' = WithoutCall(calls, id)
    /\ warned' = Warned(calls[id].answers, "tick")
    /\ display' = Render(calls[id].answers, "tick")
    /\ renders' = renders + 1
    /\ terminal' = Erase(terminal, Len(execs) + 1) \o ProgressLines(Len(execs))
    /\ UNCHANGED <<definition, pure, pc, log, poolCreated, constructed, execs,
                   execState, intervalActive, ticks, cnt, broadcasts,
                   metricsPromises, vuMetrics>>

----------------------------------------------------------------------------
(* run(), from the await of the executors to its end.                       *)

(* A clearInterval that leaves the timer set.                               *)
clearIntervalMissed(active) == active

(* clearInterval(intervalId): whether the timer is set afterwards.          *)
clearInterval(active) == FALSE

(* What the catch block does, in order.                                     *)
(* A catch block that also tears the pool down.                             *)
FailureStepsWithRelease == <<"samplerStopped", "errorExecution", "poolReleased">>
FailureSteps == <<"samplerStopped", "errorExecution">>

(* What run() does once every executor is done, up to the await of the      *)
(* `metrics` broadcast, in order.                                           *)
CollectSteps == <<"samplerStopped", "progressCleared", "metricsIssued">>

(* The catch block: the timer is cleared, the error logged, run() returns.  *)
ExecutionFailed ==
    /\ \A id \in DOMAIN calls : ~Settled(calls[id])
    /\ pc = "awaitExecs"
    /\ PromiseAll(execState) = "rejected"
    /\ intervalActive' = clearInterval(intervalActive)
    /\ log' = log \o FailureSteps
    /\ pc' = "returned"
    /\ UNCHANGED <<definition, pure, terminal, poolCreated, constructed, execs, execState,
                   ticks, cnt, calls, broadcasts, metricsPromises, vuMetrics,
                   warned, display, renders>>

(* Every executor is done: the timer is cleared, the progress lines are     *)
(* cleared and the `metrics` broadcast is started.                          *)
CollectMetrics ==
    /\ \A id \in DOMAIN calls : ~Settled(calls[id])
    /\ pc = "awaitExecs"
    /\ PromiseAll(execState) = "fulfilled"
    /\ intervalActive' = clearInterval(intervalActive)
    /\ log' = log \o CollectSteps
    /\ calls' = WithCall(calls, "metrics", "metrics")
    /\ broadcasts' = broadcasts + 1
    /\ pc' = "awaitMetrics"
    /\ terminal' = Erase(terminal, Len(execs) + 1)
    /\ UNCHANGED <<definition, pure, poolCreated, constructed, execs, execState,
                   ticks, cnt, metricsPromises, vuMetrics, warned, display,
                   renders>>

(* A reduce that pushes the value of every promise, rejected ones too.      *)
RECURSIVE AllValues(_, _)
AllValues(promises, n) ==
    IF n = 0 THEN <<>>
    ELSE Append(AllValues(promises, n - 1), promises[n].value)

(* The reduce over metricsPromises: the values of the fulfilled ones.       *)
RECURSIVE FulfilledValues(_, _)
FulfilledValues(promises, n) ==
    IF n = 0 THEN <<>>
    ELSE LET acc == FulfilledValues(promises, n - 1)
         IN  IF promises[n].status = "fulfilled"
             THEN Append(acc, promises[n].value)
             ELSE acc

(* A run() that returns after the warning, without the report.              *)
ReportStepsOrWarning(promises) ==
    IF SomeRejected(promises) THEN <<"warnMetricsLost">> ELSE <<"reportPrinted">>

(* What run() logs and prints once the `metrics` broadcast has resolved.    *)
ReportSteps(promises) ==
    (IF SomeRejected(promises) THEN <<"warnMetricsLost">> ELSE <<>>)
        \o <<"reportPrinted">>

(* The `metrics` broadcast has resolved: the warning, the merge and the     *)
(* report, and the closure is called for the final render.                  *)
MetricsResume(id) ==
    /\ pc = "awaitMetrics"
    /\ id \in DOMAIN calls
    /\ calls[id].name = "metrics"
    /\ Settled(calls[id])
    /\ metricsPromises' = calls[id].answers
    /\ warned' = Warned(calls[id].answers, "metrics")
    /\ vuMetrics' = FulfilledValues(calls[id].answers, nWorkers)
    /\ log' = log \o ReportSteps(calls[id].answers)
    /\ calls' = WithCall(WithoutCall(calls, id), "iterationsDone", "final")
    /\ broadcasts' = broadcasts + 1
    /\ pc' = "awaitFinal"
    /\ terminal' = terminal \o printMetrics(vuMetrics')
    /\ UNCHANGED <<definition, pure, poolCreated, constructed, execs, execState,
                   intervalActive, ticks, cnt, display, renders>>

(* A run() that terminates the pool before the final render.                *)
FinishStepsPoolFirst == <<"poolReleased", "finalRendered", "infoSuccess">>

(* What run() does from the final render on, in order.                      *)
FinishSteps == <<"finalRendered", "poolReleased", "infoSuccess">>

(* The broadcast of the final render has resolved: the closure renders,     *)
(* run() terminates the pool, logs its success and returns.                 *)
FinalResume(id) ==
    /\ pc = "awaitFinal"
    /\ id \in DOMAIN calls
    /\ calls[id].origin = "final"
    /\ Settled(calls[id])
    /\ calls' = WithoutCall(calls, id)
    /\ warned' = Warned(calls[id].answers, "final")
    /\ display' = Render(calls[id].answers, "final")
    /\ renders' = renders + 1
    /\ log' = log \o FinishSteps
    /\ pc' = "returned"
    /\ terminal' = Erase(terminal, Len(execs) + 1) \o ProgressLines(Len(execs))
    /\ UNCHANGED <<definition, pure, poolCreated, constructed, execs, execState,
                   intervalActive, ticks, cnt, broadcasts, metricsPromises,
                   vuMetrics>>

----------------------------------------------------------------------------
(* packages/assert/assert_less_or_equal.ts                                  *)

(* The values compared: numbers, and NaN, which no comparison holds for.    *)
Values == {<<"number", n>> : n \in 0 .. MaxValue} \cup {<<"NaN", 0>>}

(* The optional `msg`: left out, the empty string, or a text.               *)
Msgs == {<<"undefined", "">>, <<"string", "">>, <<"string", "too large">>}

(* A comparison with < in place of <=.                                      *)
LessThan(a, b) == a[1] = "number" /\ b[1] = "number" /\ a[2] < b[2]

(* JavaScript's `a <= b` on numbers.                                        *)
LessOrEqual(a, b) == a[1] = "number" /\ b[1] = "number" /\ a[2] <= b[2]

(* format(v): the text of a value.                                          *)
format(v) == IF v[1] = "NaN" THEN "NaN" ELSE ToString(v[2])

(* `msg ?? text`: text only when msg is undefined; an empty msg is kept.    *)
NullishCoalescing(msg, text) == IF msg[1] = "undefined" THEN text ELSE <<msg[2]>>

AssertionError(message) ==
    [kind |-> "AssertionError", message |-> message, line |-> <<>>]

Returned == [kind |-> "return", message |-> <<>>, line |-> <<>>]

(* A text is the sequence of the parts of its template.                     *)
assertLessOrEqual(actual, expected, msg) ==
    IF LessOrEqual(actual, expected) THEN Returned
    ELSE LET actualString == format(actual)
             expectedString == format(expected)
         IN  AssertionError(NullishCoalescing(msg,
                 <<"Expect ", actualString, " <= ", expectedString>>))

----------------------------------------------------------------------------
(* printScenarioProgress.  A percentage is held as its numerator over       *)
(* PercentScale.                                                            *)

BarWidth == 50

(* The completion mark, the character U+2713, and the blank in its place.   *)
CompletionMark == "U+2713"

NoMark == " "

Percentages ==
    (0 - PercentMargin * PercentScale) .. ((100 + PercentMargin) * PercentScale)

progressBarEmptyChar == [i \in 1 .. BarWidth |-> "-"]

progressBarFullChar == [i \in 1 .. BarWidth |-> "="]

(* Math.ceil of a percentage.                                               *)
MathCeil(p) == 0 - ((0 - p) \div PercentScale)

(* Math.floor of a percentage.                                              *)
MathFloor(p) == p \div PercentScale

(* str.slice(0, end): a negative end counts from the end of str, and the    *)
(* result stays within str.                                                 *)
Slice(str, end) ==
    LET len == Len(str)
        to == IF end < 0 THEN (IF len + end > 0 THEN len + end ELSE 0)
              ELSE IF end > len THEN len ELSE end
    IN  SubSeq(str, 1, to)

(* The line printed: the name, the mark, and the bar between the brackets.  *)
printScenarioProgress(scenarioName, progress) ==
    LET percentage == MathFloor(progress.percentage)
    IN  <<scenarioName,
          IF progress.percentage = 100 * PercentScale THEN CompletionMark
          ELSE NoMark,
          Slice(progressBarFullChar, percentage \div 2)
            \o Slice(progressBarEmptyChar,
                     Len(progressBarEmptyChar) - percentage \div 2)>>

----------------------------------------------------------------------------
(* The two functions applied on their own, to any arguments.                *)

runState ==
    <<pc, log, poolCreated, constructed, execs, execState, intervalActive,
      ticks, cnt, calls, broadcasts, metricsPromises, vuMetrics, warned,
      display, renders, terminal>>

InitPure ==
    /\ Init
    /\ moduleValue = "nothing"
    /\ nWorkers = 0

ApplyAssertLessOrEqual(actual, expected, msg) ==
    /\ call' = [fn |-> "assertLessOrEqual", args |-> <<actual, expected, msg>>]
    /\ result' = assertLessOrEqual(actual, expected, msg)
    /\ UNCHANGED <<definition, runState>>

ApplyPrintScenarioProgress(scenarioName, p) ==
    /\ call' = [fn |-> "printScenarioProgress", args |-> <<scenarioName, p>>]
    /\ result' = [kind |-> "print", message |-> <<>>,
                  line |-> printScenarioProgress(scenarioName,
                                                 [percentage |-> p])]
    /\ UNCHANGED <<definition, runState>>

NextPure ==
    \/ \E actual, expected \in Values, msg \in Msgs :
            ApplyAssertLessOrEqual(actual, expected, msg)
    \/ \E scenarioName \in ScenarioNames, p \in Percentages :
            ApplyPrintScenarioProgress(scenarioName, p)

SpecPure == InitPure /\ [][NextPure]_vars

----------------------------------------------------------------------------

Next ==
    \/ ImportFails
    \/ NoOptions
    \/ ScenariosUnreadable
    \/ ConstructionFails
    \/ StartRun
    \/ \E s \in Names : ExecutorSucceeds(s)
    \/ \E s \in Names : ExecutorFails(s)
    \/ \E w \in Workers, s \in Names : Iterate(w, s)
    \/ \E id \in DOMAIN calls, w \in Workers : Answer(id, w)
    \/ Tick
    \/ \E id \in DOMAIN calls : TickResume(id)
    \/ ExecutionFailed
    \/ CollectMetrics
    \/ \E id \in DOMAIN calls : MetricsResume(id)
    \/ \E id \in DOMAIN calls : FinalResume(id)

Spec == Init /\ [][Next]_vars

----------------------------------------------------------------------------
(* Vocabulary of the properties.                                            *)

Logged(e) == e \in Range(log)

Started == Logged("executeAll")

AnyExecutorFailed == \E s \in Names : execState[s] = "rejected"

AllExecutorsFulfilled == \A s \in Names : execState[s] = "fulfilled"

Ended == pc \in {"returned", "threw"}

MetricsCallOutstanding == \E id \in DOMAIN calls : calls[id].name = "metrics"

IsPrefix(s, t) == Len(s) <= Len(t) /\ \A i \in 1 .. Len(s) : s[i] = t[i]

(* The steps of a successful run, in the order the run takes them.          *)
SuccessSteps ==
    <<"samplerStopped", "progressCleared", "metricsIssued", "reportPrinted",
      "finalRendered", "poolReleased">>

StepsTaken == SelectSeq(log, LAMBDA e : e \in Range(SuccessSteps))

Occurrences(x, seq) == Cardinality({i \in DOMAIN seq : seq[i] = x})

----------------------------------------------------------------------------
(* C1: if any executor's execute() fails, run() stops the sampler, logs the *)
(* failure and returns; the `metrics` broadcast is never issued and no      *)
(* report is printed, whatever the other executors do.                      *)
C1_FailedRunHasNoReport ==
    AnyExecutorFailed =>
        /\ ~Logged("metricsIssued")
        /\ ~MetricsCallOutstanding
        /\ ~Logged("reportPrinted")
        /\ ~Logged("infoSuccess")
        /\ pc \in {"awaitExecs", "returned"}
        /\ pc = "returned" =>
              /\ ~intervalActive
              /\ log = StartSteps \o <<"samplerStopped", "errorExecution">>

(* A run has returned after one executor failed and another succeeded.      *)
C1_Witness ==
    /\ pc = "returned"
    /\ \E s, t \in Names : execState[s] = "rejected" /\ execState[t] = "fulfilled"

(* C2: a module that resolves to nothing, exports no `options`, or exports  *)
(* `options` without `scenarios` makes run() report a definition error and  *)
(* return, with no broadcast, no executor and no progress line.             *)
C2_DefinitionErrorReported ==
    (moduleValue \in {"nothing", "noOptionsExport", "optionsLacksScenarios"}
        /\ pc # "load") =>
        /\ pc = "returned"
        /\ Logged("errorNoOptions")
        /\ broadcasts = 0
        /\ constructed = <<>>
        /\ ~Started
        /\ ~Logged("placeholderLines")
        /\ renders = 0

(* C3: when M of the N workers fail the `metrics` broadcast, the merge is   *)
(* given exactly the registries of the N - M others, each once; the warning *)
(* is logged iff M >= 1; the merge is given nothing only if all N fail.     *)
C3_MergeOfSuccessfulRegistries ==
    Logged("reportPrinted") =>
        LET ok == {w \in Workers : metricsPromises[w].status = "fulfilled"}
            failed == {w \in Workers : metricsPromises[w].status = "rejected"}
        IN  /\ AllExecutorsFulfilled
            /\ ok \cup failed = Workers
            /\ Len(vuMetrics) = nWorkers - Cardinality(failed)
            /\ \A w \in Workers :
                   Occurrences(Registry(w), vuMetrics) = IF w \in ok THEN 1 ELSE 0
            /\ Logged("warnMetricsLost") <=> Cardinality(failed) >= 1
            /\ vuMetrics = <<>> => Cardinality(failed) = nWorkers

(* The report was printed after one of two workers failed the broadcast.    *)
C3_Witness ==
    /\ Logged("reportPrinted")
    /\ nWorkers = 2
    /\ metricsPromises[1].status = "rejected"
    /\ metricsPromises[2].status = "fulfilled"

(* C4: workers failing an `iterationsDone` broadcast, of a tick or of the   *)
(* final render, or the `metrics` broadcast never make the run fail: when   *)
(* all executors succeed, run() prints the report, renders the final        *)
(* progress, releases the pool and returns success.                         *)
C4_BroadcastFailuresAreNotFatal ==
    /\ (Started /\ pc = "threw") => FALSE
    /\ Logged("errorExecution") => AnyExecutorFailed
    /\ (Started /\ pc = "returned" /\ AllExecutorsFulfilled) =>
          /\ Logged("reportPrinted")
          /\ Logged("finalRendered")
          /\ Logged("poolReleased")
          /\ Logged("infoSuccess")

(* A run returned success although workers failed a tick's broadcast, the   *)
(* final render's and the `metrics` broadcast.                              *)
C4_Witness ==
    /\ pc = "returned"
    /\ Logged("infoSuccess")
    /\ warned = {"tick", "final", "metrics"}

(* C5: on a run where all executors succeed the steps are taken in this     *)
(* order, each once: executors resolved, sampler stopped, progress cleared, *)
(* `metrics` issued, report printed, final progress rendered, pool          *)
(* released; `metrics` is never issued while an executor runs.              *)
C5_OrderOfASuccessfulRun ==
    /\ IsPrefix(StepsTaken, SuccessSteps)
    /\ (Logged("metricsIssued") \/ MetricsCallOutstanding) => AllExecutorsFulfilled
    /\ (Logged("samplerStopped") /\ ~AnyExecutorFailed) => AllExecutorsFulfilled
    /\ (Started /\ pc = "returned" /\ AllExecutorsFulfilled) =>
          StepsTaken = SuccessSteps
    /\ Cardinality({id \in DOMAIN calls : calls[id].name = "metrics"}) <= 1

(* A run of two scenarios has taken every step of a successful run.         *)
C5_Witness ==
    /\ pc = "returned"
    /\ Len(execs) = 2
    /\ StepsTaken = SuccessSteps

(* C6: sampler ticks never overlap: at most one `iterationsDone` broadcast  *)
(* issued by the sampler is outstanding at any moment.                      *)
C6_TicksNeverOverlap ==
    Cardinality({id \in DOMAIN calls : calls[id].origin = "tick"}) <= 1

(* The iteration count a render shows for scenario s: nothing counts as 0.  *)
Shown(d, s) ==
    IF d.iterationsDone[s] = Undefined THEN 0 ELSE d.iterationsDone[s]

RenderHappens == renders' = renders + 1

(* C7: a render on which a worker of the previous render is dropped, its    *)
(* `iterationsDone` call having failed, shows for no scenario a total lower *)
(* than the previous render did.                                            *)
C7_NoRegressionWhenWorkerDropped ==
    [][(RenderHappens /\ display.fulfilled \ display'.fulfilled # {}) =>
          \A s \in Names : Shown(display', s) >= Shown(display, s)]_vars

(* C8: while no `iterationsDone` call of any worker has failed (and the     *)
(* workers' counts never decrease), no render shows for a scenario a total  *)
(* lower than the render before it.                                         *)
C8_TotalsNonDecreasing ==
    [][(RenderHappens /\ "tick" \notin warned' /\ "final" \notin warned') =>
          \A s \in Names : Shown(display', s) >= Shown(display, s)]_vars

StopCount == Occurrences("samplerStopped", log)

(* Event a is in seq and b, if in seq at all, comes after it.               *)
Precedes(a, b, seq) ==
    \E i \in DOMAIN seq :
        /\ seq[i] = a
        /\ \A j \in DOMAIN seq : seq[j] = b => i < j

(* C9 as stated: whenever the sampler has been stopped, every executor has  *)
(* settled.                                                                 *)
C9_StopOnlyAfterAllExecutors ==
    Logged("samplerStopped") => \A s \in Names : execState[s] # "running"

(* C9, amended: a run that starts the sampler stops it exactly once and     *)
(* never ends with the timer set.  When all executors succeed the stop      *)
(* comes after all of them resolved and before the `metrics` broadcast;     *)
(* when one fails it comes when that failure is caught, other executors     *)
(* possibly still running, and no `metrics` broadcast follows.              *)
C9_SamplerStoppedOnce ==
    /\ StopCount <= 1
    /\ intervalActive <=> (Logged("samplerStarted") /\ StopCount = 0)
    /\ (Ended /\ Logged("samplerStarted")) => (StopCount = 1 /\ ~intervalActive)
    /\ StopCount = 1 =>
          /\ Precedes("samplerStarted", "samplerStopped", log)
          /\ PromiseAll(execState) # "pending"
          /\ AnyExecutorFailed \/ AllExecutorsFulfilled
          /\ AnyExecutorFailed =>
                ~Logged("metricsIssued") /\ ~MetricsCallOutstanding
    /\ Logged("metricsIssued") =>
          Precedes("samplerStopped", "metricsIssued", log)
    /\ (MetricsCallOutstanding \/ metricsPromises # <<>>) => StopCount = 1

(* A run returned, its sampler stopped when one executor failed while       *)
(* another was still running.                                               *)
C9_Witness ==
    /\ pc = "returned"
    /\ StopCount = 1
    /\ \E s, t \in Names : execState[s] = "rejected" /\ execState[t] = "running"

(* C10: with K >= 1 scenarios run() constructs K executors, one per         *)
(* scenario name, and every render prints the scenario lines in the order   *)
(* the definition declares the scenarios.                                   *)
C10_DeclarationOrder ==
    (Started /\ Len(scenarios) >= 1) =>
        /\ Len(constructed) = Len(scenarios)
        /\ Range(constructed) = Names
        /\ execs = constructed
        /\ renders > 0 => display.lines = scenarios

(* C11: when a scenario names an unknown executor kind, run() fails while   *)
(* constructing the executors: the sampler is never started and execute()   *)
(* is called on no executor, those built before the failure included.       *)
C11_UnknownKindFailsBeforeStart ==
    (moduleValue = "ok" /\ pc # "load"
        /\ \E s \in Names : kinds[s] # "constant-vus") =>
        /\ pc = "threw"
        /\ ~Logged("samplerStarted")
        /\ ~intervalActive
        /\ ticks = 0
        /\ ~Started
        /\ \A s \in Names : execState[s] = "idle"
        /\ broadcasts = 0
        /\ renders = 0
        /\ \A i \in DOMAIN constructed : kinds[constructed[i]] = "constant-vus"

(* run() has thrown on the second scenario's kind after it built the        *)
(* executor of the first.                                                   *)
C11_Witness ==
    /\ pc = "threw"
    /\ Len(scenarios) = 2
    /\ Len(constructed) = 1
    /\ kinds[constructed[1]] = "constant-vus"

(* C14: execute() has been called on every executor before run() waits on   *)
(* any of them; and once one of them has failed, the next step of run() is  *)
(* its return, which leaves the executors still running as they are: it     *)
(* neither waits for them nor cancels them.                                 *)
C14_AllStartedThenFailFast ==
    [][/\ pc' = "awaitExecs" => \A s \in Names : execState'[s] # "idle"
       /\ (pc = "awaitExecs" /\ AnyExecutorFailed) =>
            /\ pc' = "returned"
            /\ execState' = execState
            /\ Occurrences("errorExecution", log') = 1]_vars

(* run() has returned on the failure of one executor of two while the other *)
(* one is still running.                                                    *)
C14_Witness ==
    /\ pc = "returned"
    /\ Logged("errorExecution")
    /\ Len(execs) = 2
    /\ Cardinality({s \in Names : execState[s] = "running"}) = 1
    /\ Cardinality({s \in Names : execState[s] = "rejected"}) = 1

(* C12: on a run whose executors all succeeded, the only render made after  *)
(* the sampler is stopped is the final one of run(): a closure started by a *)
(* timer firing, one still outstanding at the stop included, renders        *)
(* nothing once the sampler is stopped.                                     *)
C12_OnlyFinalRenderAfterStop ==
    [][(RenderHappens /\ AllExecutorsFulfilled /\ Logged("samplerStopped")) =>
            /\ display'.origin = "final"
            /\ ~Logged("finalRendered")]_vars

(* The broadcast whose resolution the closure resumes on in this step.      *)
ResumedCall == CHOOSE id \in DOMAIN calls : id \notin DOMAIN calls'

(* What a worker's answer counts for scenario s: its entry, nothing when    *)
(* the call failed or the record has no entry.                              *)
Contribution(promise, s) ==
    IF promise.status # "fulfilled" THEN 0
    ELSE IF promise.value[s] = Undefined THEN 0
    ELSE promise.value[s]

ScenarioSum(promises, s) ==
    SumOver([w \in Workers |-> Contribution(promises[w], s)],
            FulfilledWorkers(promises))

(* C15: on every render the total used for a scenario is the sum of that    *)
(* scenario's count over exactly the workers whose `iterationsDone` call    *)
(* succeeded, and the grand total is the sum of the per-scenario totals.    *)
C15_TotalsAreSumsOverSuccessfulWorkers ==
    [][RenderHappens =>
        LET promises == calls[ResumedCall].answers
        IN  /\ \A s \in Names :
                 display'.iterationsDone[s] = ScenarioSum(promises, s)
            /\ display'.iterationsTotal =
                 SumOver([s \in Names |-> ScenarioSum(promises, s)], Names)]_vars

(* C16: a tick on which the `iterationsDone` call of every worker failed    *)
(* has rendered a grand total of 0 and has passed an iteration count of 0   *)
(* to scenarioProgress for every scenario, and run() has not failed.        *)
C16_AllFailedTickRendersZeros ==
    (renders > 0 /\ nWorkers >= 1 /\ display.origin = "tick"
        /\ display.fulfilled = {}) =>
        /\ display.lines = execs
        /\ pc # "threw"
        /\ display.iterationsTotal = 0
        /\ \A s \in Names : display.iterationsDone[s] = 0

(* C18: the pool is released at most once; a run whose executors all        *)
(* succeeded has released it exactly once when it returns, after the final  *)
(* render; a run that ended on an executor's failure never releases it; and *)
(* no broadcast is started once the pool is released.                       *)
C18_PoolReleasedOnceAfterFinalRender ==
    /\ [](/\ Occurrences("poolReleased", log) <= 1
          /\ Logged("poolReleased") =>
                /\ AllExecutorsFulfilled
                /\ display.origin # "none"
                /\ Precedes("finalRendered", "poolReleased", log)
          /\ (pc = "returned" /\ AllExecutorsFulfilled /\ Started) =>
                Occurrences("poolReleased", log) = 1
          /\ AnyExecutorFailed => ~Logged("poolReleased"))
    /\ [][Logged("poolReleased") =>
            /\ broadcasts' = broadcasts
            /\ DOMAIN calls' \subseteq DOMAIN calls]_vars

(* The pool is released while the broadcast of a timer firing is still      *)
(* outstanding on it.                                                       *)
C18_Witness ==
    /\ pc = "returned"
    /\ Occurrences("poolReleased", log) = 1
    /\ \E id \in DOMAIN calls : calls[id].origin = "tick"

(* C19: a progress render erases only lines the progress display wrote,     *)
(* the placeholder lines or those of an earlier render: never a line of the *)
(* final report or of anything else, the final render included.             *)
C19_RenderErasesOnlyItsOwnLines ==
    [][RenderHappens =>
        \A l \in Range(Erased(terminal, Len(execs) + 1)) :
            l \in {"blank", "progress"}]_vars

(* C13: assertLessOrEqual(actual, expected, msg) returns normally exactly    *)
(* when actual <= expected; otherwise it throws an AssertionError whose      *)
(* message is msg when msg is given, and 'Expect <actual> <= <expected>'     *)
(* when it is not.                                                           *)
C13_ReturnsIffLessOrEqual ==
    call.fn = "assertLessOrEqual" =>
        LET actual == call.args[1]
            expected == call.args[2]
            msg == call.args[3]
            holds == /\ actual[1] = "number"
                     /\ expected[1] = "number"
                     /\ ~(actual[2] > expected[2])
        IN  /\ result.kind \in {"return", "AssertionError"}
            /\ result.kind = "return" <=> holds
            /\ result.kind = "AssertionError" =>
                 result.message =
                    IF msg[1] = "string" THEN <<msg[2]>>
                    ELSE <<"Expect ", format(actual), " <= ", format(expected)>>

(* The assertion failed on 2 <= 1 with the empty string as msg, and the      *)
(* error carries that empty msg.                                             *)
C13_Witness ==
    /\ call.fn = "assertLessOrEqual"
    /\ call.args = <<<<"number", 2>>, <<"number", 1>>, <<"string", "">>>>
    /\ result.kind = "AssertionError"
    /\ result.message = <<"">>

(* C17: for a percentage from 0 to 100 the bar is 50 characters wide, made   *)
(* of floor(floor(percentage) / 2) '=' followed by '-', and the completion   *)
(* mark is shown exactly when the percentage is 100.                         *)
C17_BarOfFiftyCharacters ==
    (/\ call.fn = "printScenarioProgress"
     /\ call.args[2] >= 0
     /\ call.args[2] <= 100 * PercentScale) =>
        LET p == call.args[2]
            bar == result.line[3]
            full == (p \div PercentScale) \div 2
        IN  /\ Len(bar) = 50
            /\ \A i \in 1 .. 50 : bar[i] = (IF i <= full THEN "=" ELSE "-")
            /\ result.line[2] = "U+2713" <=> p = 100 * PercentScale
            /\ result.line[2] \in {"U+2713", " "}
            /\ result.line[1] = call.args[1]

(* The line of a scenario one step of the scale below 100 per cent: 49 '='   *)
(* and no mark.                                                              *)
C17_Witness ==
    /\ call.fn = "printScenarioProgress"
    /\ call.args[2] = 100 * PercentScale - 1
    /\ result.line[2] = " "
    /\ result.line[3][49] = "="
    /\ result.line[3][50] = "-"

=============================================================================
